---------------------------- MODULE Spec2Model ----------------------------
(***************************************************************************)
(* Model of the tag workflows of leaf (src/leaf/extensions/tags.py): the   *)
(* in-memory reservation table of TagsCog, the tags relation the handlers  *)
(* read and write, and the slash-command handlers view, create, rename,    *)
(* edit, delete, restore, transfer and claim.                              *)
(*                                                                         *)
(* Scheduling.  The handlers are coroutines on one event loop, so a        *)
(* handler runs without interruption from one await to the next.  One      *)
(* action of the model is one such resumption: the awaited call completes  *)
(* (a store statement takes effect, a reply or a timeout arrives) and the  *)
(* handler runs on to its next await.  The first action of a workflow is   *)
(* the invocation together with the completion of its first query.  Awaits *)
(* that only send a message touch no modelled state and are folded into    *)
(* the step that issues them; what was sent last is kept in `out`.         *)
(*                                                                         *)
(* Store.  The tags relation is a sequence of rows in insertion order.     *)
(* The schema is not part of the sources: `deleted` is taken to default to *)
(* FALSE on INSERT and no uniqueness constraint is assumed.  The bot holds *)
(* one connection (bot.py 76) that every handler uses, so a statement is   *)
(* seen by every handler as soon as it completes; the transaction() blocks *)
(* are not modelled beyond that.  A write statement may fail: it then      *)
(* raises in the handler and changes nothing.  Queries are taken to        *)
(* succeed.  The INSERT of create leaves uses and the two timestamps to    *)
(* their column defaults, which the sources do not give: uses is taken to  *)
(* start at 0 and both timestamps at the time of the INSERT.  Time is a    *)
(* logical clock: NOW() is later than every timestamp the relation holds.  *)
(*                                                                         *)
(* Lookup caches (tags.py 20-21, 871-908).  Both are cachetools LRUCache   *)
(* objects: a bounded mapping that drops its least recently used key when  *)
(* a new key does not fit; reading a key with [] makes it the most         *)
(* recently used one, a membership test does not.  tag_autocomplete is a   *)
(* coroutine with one await, the fetch of line 892: the call up to the     *)
(* fetch is one action and the completion of the fetch the other.          *)
(*                                                                         *)
(* Paginator (src/leaf/utils/pagination.py).  A button or modal callback   *)
(* runs from the interaction to its response without a suspension in      *)
(* between (set_index and the author check precede the only await), so it  *)
(* is one action; Paginator.start is two: the message is sent with the     *)
(* view as it is then, and set_index follows once the send has returned.   *)
(***************************************************************************)
EXTENDS Integers, Sequences, FiniteSets, TLC

VARIABLES
    reserved,   \* TagsCog._reserved_tags_being_made: guild_id -> set of names
    store,      \* the tags relation: a sequence of rows
    wf,         \* one record per command invocation (its locals and position)
    call,       \* the last direct call on the reservation table and its result
    pg,         \* a Paginator, its PaginatedView and the message it was sent in
    ac          \* TagsCog.tag_cache, TagsCog.autocomplete_cache and the
                \* tag_autocomplete calls in flight

vars == <<reserved, store, wf, call, pg, ac>>

---------------------------------------------------------------------------
(* Bounds and value sets *)

NumProcs == 2          \* command invocations in one behaviour
MaxRows == 3           \* rows the relation may hold
MaxUses == 3           \* largest value of the uses counter
MaxPages == 3          \* embeds a paginator is built over

Procs == 1..NumProcs
Guilds == {1, 2}
Names == {"a", "A", "b"}          \* names given to the reservation table
TagNames == {"a", "b"}            \* names given to the commands
Contents == {"x", "*y"}           \* text of a reply to create / edit
Users == {1, 2, 3}                \* 1: plain member, 2: manage_guild, 3: bot owner
BotUsers == {4}                   \* a member with user.bot set
NoRecord == 0                     \* fetchrow returned None
NoMsg == "<none>"                 \* no reply message received

\* str.lower() on the names of the model
Lower(n) ==
    CASE n = "A" -> "a"
      [] n = "B" -> "b"
      [] OTHER -> n

---------------------------------------------------------------------------
(* Reservation table: tags.py 34-58 *)

\* The name `tags` in the f-string of line 37 is bound nowhere in the method or
\* the module (it is a local of add_in_progress_tag and a class attribute).
TagsNameBound == FALSE

\* is_tag_being_made: "False" on KeyError (lines 38-40); with the guild present
\* line 37 is evaluated first, and line 42 is reached only if it does not raise.
is_tag_being_made(res, guild_id, name) ==
    IF guild_id \notin DOMAIN res
    THEN "False"
    ELSE IF ~TagsNameBound
         THEN "NameError"
         ELSE IF Lower(name) \in res[guild_id] THEN "True" ELSE "False"

\* add_in_progress_tag: setdefault(guild_id, set()).add(name.lower())
add_in_progress_tag(res, guild_id, name) ==
    IF guild_id \in DOMAIN res
    THEN [res EXCEPT ![guild_id] = @ \cup {Lower(name)}]
    ELSE [g \in DOMAIN res \cup {guild_id} |->
            IF g = guild_id THEN {Lower(name)} ELSE res[g]]

\* Mutant of remove_in_progress_tag: the guild entry is kept when its set
\* becomes empty
remove_keeps_empty_set(res, guild_id, name) ==
    IF guild_id \notin DOMAIN res
    THEN res
    ELSE [res EXCEPT ![guild_id] = @ \ {Lower(name)}]

\* remove_in_progress_tag: return on KeyError; discard; prune the empty set
remove_in_progress_tag(res, guild_id, name) ==
    IF guild_id \notin DOMAIN res
    THEN res
    ELSE LET being_made == res[guild_id] \ {Lower(name)}
         IN IF being_made = {}
            THEN [g \in DOMAIN res \ {guild_id} |-> res[g]]
            ELSE [res EXCEPT ![guild_id] = being_made]

\* Whether (guild_id, name) is in the table: what the lookup is meant to answer
Held(res, guild_id, name) ==
    guild_id \in DOMAIN res /\ Lower(name) \in res[guild_id]

NoCall == [op |-> "none", guild |-> 0, name |-> "", result |-> ""]

TableReserve(g, n) ==
    /\ reserved' = add_in_progress_tag(reserved, g, n)
    /\ call' = [op |-> "add_in_progress_tag", guild |-> g, name |-> n, result |-> "None"]
    /\ UNCHANGED <<store, wf>>

TableRelease(g, n) ==
    /\ reserved' = remove_in_progress_tag(reserved, g, n)
    /\ call' = [op |-> "remove_in_progress_tag", guild |-> g, name |-> n, result |-> "None"]
    /\ UNCHANGED <<store, wf>>

TableQuery(g, n) ==
    /\ call' = [op |-> "is_tag_being_made", guild |-> g, name |-> n,
                result |-> is_tag_being_made(reserved, g, n)]
    /\ UNCHANGED <<reserved, store, wf>>

---------------------------------------------------------------------------
(* The tags relation *)

\* Column defaults of the INSERT (VALUES (..., DEFAULT, DEFAULT, DEFAULT))
DefaultUses == 0

\* A row with the default uses, stamped at time 0
Row(g, n, owner, content, deleted) ==
    [guild |-> g, name |-> n, owner_id |-> owner, content |-> content,
     deleted |-> deleted, uses |-> DefaultUses, created_at |-> 0,
     last_edited_at |-> 0]

Max(S) == CHOOSE x \in S : \A y \in S : y <= x

\* NOW() AT TIME ZONE 'utc': later than every timestamp stored so far
Now(s) ==
    1 + Max({0} \cup {s[i].created_at : i \in 1..Len(s)}
                \cup {s[i].last_edited_at : i \in 1..Len(s)})

\* created_at and last_edited_at DEFAULT: the time of the INSERT, for both
DefaultTimestamps(r, at) == [r EXCEPT !.created_at = at, !.last_edited_at = at]

\* Mutant of Matching: the WHERE clause lacks the guild
MatchingAnyGuild(s, n, g, deleted) ==
    {i \in 1..Len(s) : s[i].name = n /\ s[i].deleted = deleted}

\* Rows matching WHERE name = $1 AND guild_id = $2 AND deleted = $3
Matching(s, n, g, deleted) ==
    {i \in 1..Len(s) : s[i].name = n /\ s[i].guild = g /\ s[i].deleted = deleted}

\* fetchrow: the owner_id of some matching row, or NoRecord (None)
FetchOwners(s, n, g, deleted) ==
    IF Matching(s, n, g, deleted) = {}
    THEN {NoRecord}
    ELSE {s[i].owner_id : i \in Matching(s, n, g, deleted)}

\* Mutant of InsertTag: the name and the content are bound the wrong way round
InsertTagSwapped(s, n, g, owner, content) ==
    Append(s, DefaultTimestamps(Row(g, content, owner, n, FALSE), Now(s)))

\* INSERT INTO tags(name, guild_id, owner_id, content, ...)
InsertTag(s, n, g, owner, content) ==
    Append(s, DefaultTimestamps(Row(g, n, owner, content, FALSE), Now(s)))

\* UPDATE tags SET name = $1, last_edited_at = ... WHERE name = $2 and guild_id = $3
RenameRows(s, new_name, n, g) ==
    [i \in 1..Len(s) |->
        IF s[i].name = n /\ s[i].guild = g
        THEN [s[i] EXCEPT !.name = new_name, !.last_edited_at = Now(s)]
        ELSE s[i]]

\* UPDATE tags SET content = $1, last_edited_at = ... WHERE name = $2 and guild_id = $3
EditRows(s, content, n, g) ==
    [i \in 1..Len(s) |->
        IF s[i].name = n /\ s[i].guild = g
        THEN [s[i] EXCEPT !.content = content, !.last_edited_at = Now(s)]
        ELSE s[i]]

\* DELETE FROM Tags WHERE name = $1 AND guild_id = $2
KeptByHardDelete(r, n, g) == ~(r.name = n /\ r.guild = g)

HardDeleteRows(s, n, g) ==
    SelectSeq(s, LAMBDA r : KeptByHardDelete(r, n, g))

\* UPDATE Tags SET deleted = true WHERE name = $1
SoftDeleteRows(s, n) ==
    [i \in 1..Len(s) |->
        IF s[i].name = n THEN [s[i] EXCEPT !.deleted = TRUE] ELSE s[i]]

\* UPDATE tags SET name = $1, deleted = FALSE
\*   WHERE name = $2 AND guild_id = $3 AND deleted = TRUE
RestoreRenamedRows(s, new_name, n, g) ==
    [i \in 1..Len(s) |->
        IF s[i].name = n /\ s[i].guild = g /\ s[i].deleted
        THEN [s[i] EXCEPT !.name = new_name, !.deleted = FALSE]
        ELSE s[i]]

\* UPDATE tags SET deleted = FALSE WHERE name = $1 AND guild_id = $2
RestoreRows(s, n, g) ==
    [i \in 1..Len(s) |->
        IF s[i].name = n /\ s[i].guild = g THEN [s[i] EXCEPT !.deleted = FALSE] ELSE s[i]]

\* UPDATE tags SET owner_id = $1 WHERE name = $2 AND guild_id = $3
TransferRows(s, owner, n, g) ==
    [i \in 1..Len(s) |->
        IF s[i].name = n /\ s[i].guild = g THEN [s[i] EXCEPT !.owner_id = owner] ELSE s[i]]

\* UPDATE tags SET owner_id = $1 WHERE name = $2
ClaimRows(s, owner, n) ==
    [i \in 1..Len(s) |->
        IF s[i].name = n THEN [s[i] EXCEPT !.owner_id = owner] ELSE s[i]]

\* fetchrow of view_tag: (content, uses) of some matching non-deleted row
FetchTags(s, n, g) ==
    {<<s[i].content, s[i].uses>> : i \in Matching(s, n, g, FALSE)}

\* Mutant of ViewRows: the counter is set to the value read, not to the next
ViewRowsNoIncrement(s, uses, n, g) ==
    [i \in 1..Len(s) |->
        IF s[i].name = n /\ s[i].guild = g THEN [s[i] EXCEPT !.uses = uses - 1] ELSE s[i]]

\* UPDATE tags SET uses = $1 WHERE name = $2 and guild_id = $3
ViewRows(s, uses, n, g) ==
    [i \in 1..Len(s) |->
        IF s[i].name = n /\ s[i].guild = g THEN [s[i] EXCEPT !.uses = uses] ELSE s[i]]

\* disnake.utils.escape_markdown on the contents of the model
escape_markdown(content) ==
    CASE content = "*y" -> "\\*y"
      [] OTHER -> content

---------------------------------------------------------------------------
(* Workflows *)

\* interaction.author.guild_permissions.manage_guild
HasManageGuild(u) == u = 2

\* bot.is_owner(interaction.user)
IsBotOwner(u) == u = 3

\* check_permissions(tag_record["owner_id"], interaction)
check_permissions(owner, u) ==
    owner = u \/ HasManageGuild(u) \/ IsBotOwner(u)

\* op, pc: the command and the await the handler is suspended at;
\* guild, user, tag, arg, target: interaction.guild.id, interaction.user.id and
\* the command's parameters (arg: new_name; target: the user of transfer);
\* owner: tag_record["owner_id"]; msg: message.content of the awaited reply;
\* out: the message last sent, or the exception that left the handler;
\* writes: the write statements of this invocation that completed;
\* raw, shown, uses: the raw parameter of view, the description of the embed
\* it sent and tag_record["uses"];
\* member: what try_member gave in claim ("Member", or "NotFound" raised).
\* The channels messages arrive in; the commands are invoked in the first one
Channels == {1, 2}
InteractionChannel == 1

\* The "message" events the gateway dispatches while a workflow waits
Messages(contents) == [channel : Channels, author : Users, content : contents]

\* No message has been returned by wait_for
NoMessage == [channel |-> 0, author |-> 0, content |-> NoMsg]

Idle == [op |-> "none", pc |-> "idle", guild |-> 0, user |-> 0, tag |-> "",
         arg |-> "", target |-> 0, owner |-> NoRecord, msg |-> NoMsg, out |-> "",
         writes |-> 0, raw |-> FALSE, shown |-> "", uses |-> 0, member |-> "",
         message |-> NoMessage, starting_page |-> 1]

\* Mutant of check: the author of the message is not compared
check_any_author(w, message) == message.channel = InteractionChannel

\* The check closures handed to wait_for (create 278-282, edit 438-442,
\* restore 602-606): same channel and same user as the interaction
check(w, message) ==
    /\ message.channel = InteractionChannel
    /\ message.author = w.user

Invoke(op, g, u, tag) ==
    [Idle EXCEPT !.op = op, !.guild = g, !.user = u, !.tag = tag]

\* Invocations are numbered in the order they arrive: p is the next one
Fresh(p) ==
    /\ wf[p].pc = "idle"
    /\ \A q \in Procs : q < p => wf[q].pc # "idle"

\* A write statement of the handler completed
Wrote(w) == [w EXCEPT !.writes = @ + 1]

\* The handler returns after sending `out`, or an exception `out` leaves it
Ended(w, out) == [w EXCEPT !.pc = "done", !.out = out]

\* Mutant of OnTimeout: the except branch does not return, and create goes on
\* to its INSERT
OnTimeoutFallsThrough(w) ==
    IF w.op = "create" THEN [w EXCEPT !.pc = "c_insert"] ELSE Ended(w, "took_too_long")

\* except asyncio.TimeoutError: send the notice and return
OnTimeout(w) == Ended(w, "took_too_long")

\* view_tag 212-236: the SELECT completes; not found, or the embed with the
\* content is sent and the UPDATE of uses is issued.  The handler does not
\* read interaction.user.
ViewStart(p, g, n, raw) ==
    /\ Fresh(p)
    /\ LET w == [Invoke("view", g, 0, n) EXCEPT !.raw = raw]
       IN IF FetchTags(store, n, g) = {}
          THEN wf' = [wf EXCEPT ![p] = Ended(w, "does_not_exist")]
          ELSE \E tag_record \in FetchTags(store, n, g) :
                 wf' = [wf EXCEPT ![p] =
                    [w EXCEPT !.pc = "v_update",
                              !.shown = IF raw THEN escape_markdown(tag_record[1])
                                               ELSE tag_record[1],
                              !.uses = tag_record[2],
                              !.out = "content"]]
    /\ UNCHANGED <<reserved, store, call>>

\* view_tag 231-236: the UPDATE of uses completes
ViewUpdate(p, ok) ==
    /\ wf[p].pc = "v_update"
    /\ IF ok
       THEN /\ wf[p].uses + 1 <= MaxUses
            /\ store' = ViewRows(store, wf[p].uses + 1, wf[p].tag, wf[p].guild)
            /\ wf' = [wf EXCEPT ![p] = Ended(Wrote(@), "content")]
       ELSE /\ wf' = [wf EXCEPT ![p] = Ended(@, "DbError")]
            /\ UNCHANGED store
    /\ UNCHANGED <<reserved, call>>

\* Mutant of CreateCheck: only the store is consulted
CreateCheckStoreOnly(res, owner, g, n) ==
    IF owner # NoRecord THEN "reject" ELSE "pass"

\* create_tag, line 266: not tag_record and not self.is_tag_being_made(...)
\* "pass", "reject" (the else branch) or the exception the condition raises
CreateCheck(res, owner, g, n) ==
    IF owner # NoRecord
    THEN "reject"
    ELSE CASE is_tag_being_made(res, g, n) = "False" -> "pass"
           [] is_tag_being_made(res, g, n) = "True" -> "reject"
           [] OTHER -> is_tag_being_made(res, g, n)

\* create_tag 258-276: the SELECT completes, the condition is evaluated, the
\* name is reserved and the prompt is sent
CreateStart(p, g, u, n) ==
    /\ Fresh(p)
    /\ \E owner \in FetchOwners(store, n, g, FALSE) :
         LET w == Invoke("create", g, u, n)
             c == CreateCheck(reserved, owner, g, n)
         IN IF c = "pass"
            THEN /\ reserved' = add_in_progress_tag(reserved, g, n)
                 /\ wf' = [wf EXCEPT ![p] = [w EXCEPT !.pc = "c_wait", !.out = "reply_with_content"]]
            ELSE /\ reserved' = reserved
                 /\ wf' = [wf EXCEPT ![p] =
                             Ended(w, IF c = "reject" THEN "already_exists" ELSE c)]
    /\ UNCHANGED <<store, call>>

\* create_tag 278-287: wait_for returns the first message its check accepts;
\* the INSERT of message.content is issued
CreateReply(p, message) ==
    /\ wf[p].pc = "c_wait"
    /\ check(wf[p], message)
    /\ wf' = [wf EXCEPT ![p] = [@ EXCEPT !.pc = "c_insert", !.message = message,
                                         !.msg = message.content]]
    /\ UNCHANGED <<reserved, store, call>>

\* create_tag 288-297
CreateTimeout(p) ==
    /\ wf[p].pc = "c_wait"
    /\ wf' = [wf EXCEPT ![p] = OnTimeout(@)]
    /\ UNCHANGED <<reserved, store, call>>

\* create_tag 299-315: the INSERT completes, then the reservation is removed
CreateInsert(p, ok) ==
    /\ wf[p].pc = "c_insert"
    /\ IF ok
       THEN /\ Len(store) < MaxRows
            /\ store' = InsertTag(store, wf[p].tag, wf[p].guild, wf[p].user, wf[p].msg)
            /\ reserved' = remove_in_progress_tag(reserved, wf[p].guild, wf[p].tag)
            /\ wf' = [wf EXCEPT ![p] = Ended(Wrote(@), "created")]
       ELSE /\ wf' = [wf EXCEPT ![p] = Ended(@, "DbError")]
            /\ UNCHANGED <<reserved, store>>
    /\ UNCHANGED call

\* rename_tag, line 363: new_name_tag_record and self.is_tag_being_made(...)
\* "reject" (the message of 366-372), "pass" or the exception the condition raises
RenameCheck(res, record, g, new_name) ==
    IF record = NoRecord
    THEN "pass"
    ELSE CASE is_tag_being_made(res, g, new_name) = "True" -> "reject"
           [] is_tag_being_made(res, g, new_name) = "False" -> "pass"
           [] OTHER -> is_tag_being_made(res, g, new_name)

\* The name the SELECT of lines 356-360 looks up: its parameter is `tag`
RenameLookupName(tag, new_name) == tag

\* rename_tag 337-360: the first SELECT completes; not found, or the permission
\* check, then the second SELECT is issued
RenameStart(p, g, u, n, new_name) ==
    /\ Fresh(p)
    /\ \E owner \in FetchOwners(store, n, g, FALSE) :
         LET w == [Invoke("rename", g, u, n) EXCEPT !.arg = new_name, !.owner = owner]
         IN wf' = [wf EXCEPT ![p] =
                CASE owner = NoRecord -> Ended(w, "does_not_exist")
                  [] owner # NoRecord /\ ~check_permissions(owner, u) ->
                        Ended(w, "no_permission")
                  [] OTHER -> [w EXCEPT !.pc = "rn_fetch"]]
    /\ UNCHANGED <<reserved, store, call>>

\* rename_tag 356-376: the second SELECT completes; the condition of line 363;
\* the new name is reserved and the UPDATE is issued
RenameFetched(p) ==
    /\ wf[p].pc = "rn_fetch"
    /\ \E record \in FetchOwners(store, RenameLookupName(wf[p].tag, wf[p].arg),
                                 wf[p].guild, FALSE) :
         LET c == RenameCheck(reserved, record, wf[p].guild, wf[p].arg)
         IN IF c = "pass"
            THEN /\ reserved' = add_in_progress_tag(reserved, wf[p].guild, wf[p].arg)
                 /\ wf' = [wf EXCEPT ![p] = [@ EXCEPT !.pc = "rn_update"]]
            ELSE /\ reserved' = reserved
                 /\ wf' = [wf EXCEPT ![p] =
                             Ended(@, IF c = "reject" THEN "name_exists" ELSE c)]
    /\ UNCHANGED <<store, call>>

\* rename_tag 376-389: the UPDATE completes, then the reservation is removed
RenameUpdate(p, ok) ==
    /\ wf[p].pc = "rn_update"
    /\ IF ok
       THEN /\ store' = RenameRows(store, wf[p].arg, wf[p].tag, wf[p].guild)
            /\ reserved' = remove_in_progress_tag(reserved, wf[p].guild, wf[p].arg)
            /\ wf' = [wf EXCEPT ![p] = Ended(Wrote(@), "renamed")]
       ELSE /\ wf' = [wf EXCEPT ![p] = Ended(@, "DbError")]
            /\ UNCHANGED <<reserved, store>>
    /\ UNCHANGED call

\* edit_tag 410-434: the SELECT completes; not found, or the permission check,
\* then the prompt is sent
EditStart(p, g, u, n) ==
    /\ Fresh(p)
    /\ \E owner \in FetchOwners(store, n, g, FALSE) :
         LET w == [Invoke("edit", g, u, n) EXCEPT !.owner = owner]
         IN wf' = [wf EXCEPT ![p] =
                CASE owner = NoRecord -> Ended(w, "does_not_exist")
                  [] owner # NoRecord /\ ~check_permissions(owner, u) ->
                        Ended(w, "no_permission")
                  [] OTHER -> [w EXCEPT !.pc = "e_wait", !.out = "reply_with_content"]]
    /\ UNCHANGED <<reserved, store, call>>

\* edit_tag 438-447: wait_for returns the first message its check accepts;
\* the UPDATE to message.content is issued
EditReply(p, message) ==
    /\ wf[p].pc = "e_wait"
    /\ check(wf[p], message)
    /\ wf' = [wf EXCEPT ![p] = [@ EXCEPT !.pc = "e_update", !.message = message,
                                         !.msg = message.content]]
    /\ UNCHANGED <<reserved, store, call>>

\* edit_tag 448-457
EditTimeout(p) ==
    /\ wf[p].pc = "e_wait"
    /\ wf' = [wf EXCEPT ![p] = OnTimeout(@)]
    /\ UNCHANGED <<reserved, store, call>>

\* edit_tag 459-471: the UPDATE completes
EditUpdate(p, ok) ==
    /\ wf[p].pc = "e_update"
    /\ IF ok
       THEN /\ store' = EditRows(store, wf[p].msg, wf[p].tag, wf[p].guild)
            /\ wf' = [wf EXCEPT ![p] = Ended(Wrote(@), "edited")]
       ELSE /\ wf' = [wf EXCEPT ![p] = Ended(@, "DbError")]
            /\ UNCHANGED store
    /\ UNCHANGED <<reserved, call>>

\* delete_tag 531-549: the permission check; the soft-delete UPDATE is issued
DeletePermission(w) ==
    IF check_permissions(w.owner, w.user)
    THEN [w EXCEPT !.pc = "d_soft"]
    ELSE Ended(w, "no_permission")

\* delete_tag 496-519: the SELECT completes; not found, or the SELECT for an
\* already deleted row of the same name is issued
DeleteStart(p, g, u, n) ==
    /\ Fresh(p)
    /\ \E owner \in FetchOwners(store, n, g, FALSE) :
         LET w == [Invoke("delete", g, u, n) EXCEPT !.owner = owner]
         IN wf' = [wf EXCEPT ![p] =
                IF owner = NoRecord
                THEN Ended(w, "does_not_exist")
                ELSE [w EXCEPT !.pc = "d_dup"]]
    /\ UNCHANGED <<reserved, store, call>>

\* delete_tag 515-534: the second SELECT completes; with a duplicate the hard
\* DELETE is issued, otherwise the permission check follows
DeleteFetched(p) ==
    /\ wf[p].pc = "d_dup"
    /\ wf' = [wf EXCEPT ![p] =
            IF Matching(store, wf[p].tag, wf[p].guild, TRUE) # {}
            THEN [@ EXCEPT !.pc = "d_hard"]
            ELSE DeletePermission(@)]
    /\ UNCHANGED <<reserved, store, call>>

\* delete_tag 525-534: the hard DELETE completes; the permission check follows
DeleteHard(p, ok) ==
    /\ wf[p].pc = "d_hard"
    /\ IF ok
       THEN /\ store' = HardDeleteRows(store, wf[p].tag, wf[p].guild)
            /\ wf' = [wf EXCEPT ![p] = DeletePermission(Wrote(@))]
       ELSE /\ wf' = [wf EXCEPT ![p] = Ended(@, "DbError")]
            /\ UNCHANGED store
    /\ UNCHANGED <<reserved, call>>

\* delete_tag 532-541: the soft-delete UPDATE completes
DeleteSoft(p, ok) ==
    /\ wf[p].pc = "d_soft"
    /\ IF ok
       THEN /\ store' = SoftDeleteRows(store, wf[p].tag)
            /\ wf' = [wf EXCEPT ![p] = Ended(Wrote(@), "deleted")]
       ELSE /\ wf' = [wf EXCEPT ![p] = Ended(@, "DbError")]
            /\ UNCHANGED store
    /\ UNCHANGED <<reserved, call>>

\* restore_tag 615-637: the checks on the replied name before the SELECT
\* "invalid_name", "name_taken", "pass" or the exception the condition raises
RestoreReplyCheck(res, g, new_tag_name) ==
    IF new_tag_name = ""
    THEN "invalid_name"
    ELSE CASE is_tag_being_made(res, g, new_tag_name) = "True" -> "name_taken"
           [] is_tag_being_made(res, g, new_tag_name) = "False" -> "pass"
           [] OTHER -> is_tag_being_made(res, g, new_tag_name)

\* Mutant of RestoreAsksNewName: the duplicate is ignored
RestoreNeverAsks(duplicate) == FALSE

\* restore_tag 593: the branch taken on duplicate_tag_record
RestoreAsksNewName(duplicate) == duplicate # NoRecord

\* restore_tag 552, 568-590: has_permissions(manage_guild=True) admits the
\* invoker; the SELECT of the deleted row completes; not found, or the SELECT
\* for a non-deleted row of the same name is issued
RestoreStart(p, g, u, n) ==
    /\ Fresh(p)
    /\ HasManageGuild(u)
    /\ \E owner \in FetchOwners(store, n, g, TRUE) :
         LET w == [Invoke("restore", g, u, n) EXCEPT !.owner = owner]
         IN wf' = [wf EXCEPT ![p] =
                IF owner = NoRecord
                THEN Ended(w, "does_not_exist")
                ELSE [w EXCEPT !.pc = "rs_dup"]]
    /\ UNCHANGED <<reserved, store, call>>

\* restore_tag 586-600, 662: the second SELECT completes; with a duplicate the
\* prompt for a new name is sent, otherwise the plain UPDATE is issued
RestoreFetched(p) ==
    /\ wf[p].pc = "rs_dup"
    /\ \E duplicate \in FetchOwners(store, wf[p].tag, wf[p].guild, FALSE) :
         wf' = [wf EXCEPT ![p] =
            IF RestoreAsksNewName(duplicate)
            THEN [@ EXCEPT !.pc = "rs_wait", !.out = "reply_with_new_name"]
            ELSE [@ EXCEPT !.pc = "rs_plain"]]
    /\ UNCHANGED <<reserved, store, call>>

\* restore_tag 662-673: the plain UPDATE completes
RestorePlain(p, ok) ==
    /\ wf[p].pc = "rs_plain"
    /\ IF ok
       THEN /\ store' = RestoreRows(store, wf[p].tag, wf[p].guild)
            /\ wf' = [wf EXCEPT ![p] = Ended(Wrote(@), "restored")]
       ELSE /\ wf' = [wf EXCEPT ![p] = Ended(@, "DbError")]
            /\ UNCHANGED store
    /\ UNCHANGED <<reserved, call>>

\* restore_tag 602-637: wait_for returns the first message its check accepts;
\* new_tag_name = message.content; the empty-name and the reservation checks,
\* then the SELECT for the new name is issued
RestoreReply(p, message) ==
    /\ wf[p].pc = "rs_wait"
    /\ check(wf[p], message)
    /\ LET m == message.content
           c == RestoreReplyCheck(reserved, wf[p].guild, m)
       IN wf' = [wf EXCEPT ![p] =
            IF c = "pass"
            THEN [@ EXCEPT !.pc = "rs_verify", !.message = message, !.msg = m]
            ELSE Ended([@ EXCEPT !.message = message, !.msg = m], c)]
    /\ UNCHANGED <<reserved, store, call>>

\* restore_tag 610-613
RestoreTimeout(p) ==
    /\ wf[p].pc = "rs_wait"
    /\ wf' = [wf EXCEPT ![p] = OnTimeout(@)]
    /\ UNCHANGED <<reserved, store, call>>

\* restore_tag 633-652: the SELECT for the new name completes; taken, or the
\* new name is reserved and the UPDATE is issued
RestoreVerify(p) ==
    /\ wf[p].pc = "rs_verify"
    /\ IF Matching(store, wf[p].msg, wf[p].guild, FALSE) # {}
       THEN /\ wf' = [wf EXCEPT ![p] = Ended(@, "name_taken")]
            /\ reserved' = reserved
       ELSE /\ wf' = [wf EXCEPT ![p] = [@ EXCEPT !.pc = "rs_update"]]
            /\ reserved' = add_in_progress_tag(reserved, wf[p].guild, wf[p].msg)
    /\ UNCHANGED <<store, call>>

\* restore_tag 647-660: the UPDATE completes, then the reservation is removed
RestoreUpdate(p, ok) ==
    /\ wf[p].pc = "rs_update"
    /\ IF ok
       THEN /\ store' = RestoreRenamedRows(store, wf[p].msg, wf[p].tag, wf[p].guild)
            /\ reserved' = remove_in_progress_tag(reserved, wf[p].guild, wf[p].msg)
            /\ wf' = [wf EXCEPT ![p] = Ended(Wrote(@), "renamed_and_restored")]
       ELSE /\ wf' = [wf EXCEPT ![p] = Ended(@, "DbError")]
            /\ UNCHANGED <<reserved, store>>
    /\ UNCHANGED call

\* transfer_tag 750-775: the SELECT completes; not found, no permission, a bot
\* as the new owner, or the UPDATE is issued
TransferStart(p, g, u, n, target) ==
    /\ Fresh(p)
    /\ \E owner \in FetchOwners(store, n, g, FALSE) :
         LET w == [Invoke("transfer", g, u, n) EXCEPT !.target = target, !.owner = owner]
         IN wf' = [wf EXCEPT ![p] =
                CASE owner = NoRecord -> Ended(w, "does_not_exist")
                  [] owner # NoRecord /\ ~check_permissions(owner, u) ->
                        Ended(w, "no_permission")
                  [] owner # NoRecord /\ check_permissions(owner, u)
                       /\ target \in BotUsers -> Ended(w, "cannot_transfer_to_bots")
                  [] OTHER -> [w EXCEPT !.pc = "t_update"]]
    /\ UNCHANGED <<reserved, store, call>>

\* transfer_tag 770-782: the UPDATE completes
TransferUpdate(p, ok) ==
    /\ wf[p].pc = "t_update"
    /\ IF ok
       THEN /\ store' = TransferRows(store, wf[p].target, wf[p].tag, wf[p].guild)
            /\ wf' = [wf EXCEPT ![p] = Ended(Wrote(@), "transferred")]
       ELSE /\ wf' = [wf EXCEPT ![p] = Ended(@, "DbError")]
            /\ UNCHANGED store
    /\ UNCHANGED <<reserved, call>>

\* claim_tag 813-825: the SELECT completes; not found, or the membership
\* lookup of the recorded owner is issued
ClaimStart(p, g, u, n) ==
    /\ Fresh(p)
    /\ \E owner \in FetchOwners(store, n, g, FALSE) :
         LET w == [Invoke("claim", g, u, n) EXCEPT !.owner = owner]
         IN wf' = [wf EXCEPT ![p] =
                IF owner = NoRecord
                THEN Ended(w, "does_not_exist")
                ELSE [w EXCEPT !.pc = "cl_member"]]
    /\ UNCHANGED <<reserved, store, call>>

\* Mutant of ClaimMember: the UPDATE is issued whatever the lookup gives
ClaimIgnoresMember(p, present) ==
    /\ wf[p].pc = "cl_member"
    /\ wf' = [wf EXCEPT ![p] =
            [@ EXCEPT !.pc = "cl_update",
                      !.member = IF present THEN "Member" ELSE "NotFound"]]
    /\ UNCHANGED <<reserved, store, call>>

\* claim_tag 822-842, bot.py 131-132: try_member returns the member, or raises
\* NotFound and the UPDATE is issued
ClaimMember(p, present) ==
    /\ wf[p].pc = "cl_member"
    /\ wf' = [wf EXCEPT ![p] =
            IF present
            THEN Ended([@ EXCEPT !.member = "Member"], "owner_still_present")
            ELSE [@ EXCEPT !.pc = "cl_update", !.member = "NotFound"]]
    /\ UNCHANGED <<reserved, store, call>>

\* claim_tag 838-850: the UPDATE completes
ClaimUpdate(p, ok) ==
    /\ wf[p].pc = "cl_update"
    /\ IF ok
       THEN /\ store' = ClaimRows(store, wf[p].user, wf[p].tag)
            /\ wf' = [wf EXCEPT ![p] = Ended(Wrote(@), "claimed")]
       ELSE /\ wf' = [wf EXCEPT ![p] = Ended(@, "DbError")]
            /\ UNCHANGED store
    /\ UNCHANGED <<reserved, call>>

---------------------------------------------------------------------------
(* Paginator: src/leaf/utils/pagination.py *)

NoAuthor == 0                     \* author=None
PageUsers == {1, 2}               \* users pressing the buttons of the message
PageTexts == {"0", "1", "2", "3", "4", "5", "abc", "<sup2>"}    \* text of the modal

\* str.isdigit() on the texts of the model; "<sup2>" stands for the one
\* character SUPERSCRIPT TWO (U+00B2), which is a digit to isdigit()
isdigit(text) == text \in {"0", "1", "2", "3", "4", "5", "<sup2>"}

\* int(text) accepts the decimal digits only
IntRaises(text) == text \notin {"0", "1", "2", "3", "4", "5"}

int(text) ==
    CASE text = "0" -> 0
      [] text = "1" -> 1
      [] text = "2" -> 2
      [] text = "3" -> 3
      [] text = "4" -> 4
      [] text = "5" -> 5

\* pc: "none" no paginator; "built" constructed; "sending" start() awaits the
\* send of the message; "started" start() has returned;
\* embeds: len(embeds), the pages being embeds[0..embeds-1];
\* start_index, author: Paginator.index and author;
\* index, previous_disabled, next_disabled: PaginatedView.index and the
\* disabled flags of its previous and next buttons;
\* shown, shown_previous_disabled, shown_next_disabled: the page and the
\* button states the message carries (-1: no message);
\* modal: the user a PageModal was sent to (0: none);
\* request, user, text: the last interaction: the custom_id of the button
\* pressed or "modal" for a submission, interaction.user and the text
\* submitted; response: the response it was given, or the exception raised.
NoPaginator ==
    [pc |-> "none", embeds |-> 0, start_index |-> 0, author |-> NoAuthor,
     index |-> 0, previous_disabled |-> FALSE, next_disabled |-> FALSE,
     shown |-> -1, shown_previous_disabled |-> FALSE, shown_next_disabled |-> FALSE,
     modal |-> 0, request |-> "", user |-> 0, text |-> "", response |-> ""]

\* An interaction with the message arrives
Interaction(v, custom_id, user, text) ==
    [v EXCEPT !.request = custom_id, !.user = user, !.text = text]

\* Paginator.__init__ 13-23 and PaginatedView.__init__ 43-49: the view starts
\* at index 0 with both buttons enabled
Paginator(embeds, index, author) ==
    [NoPaginator EXCEPT !.pc = "built", !.embeds = embeds, !.start_index = index,
                        !.author = author]

\* Mutant of set_index: the upper end of the range is accepted
set_index_off_by_one(v, index) ==
    IF ~(0 <= index /\ index <= v.embeds)
    THEN v
    ELSE [v EXCEPT !.previous_disabled = (index = 0),
                   !.next_disabled = (index = v.embeds - 1),
                   !.index = index]

\* PaginatedView.set_index 96-102
set_index(v, index) ==
    IF ~(0 <= index /\ index < v.embeds)
    THEN v
    ELSE [v EXCEPT !.previous_disabled = (index = 0),
                   !.next_disabled = (index = v.embeds - 1),
                   !.index = index]

\* PaginatedView.update 81-94: the permission message for another user than
\* the author, otherwise the message is edited to embeds[index] and the view
update(v, user) ==
    IF v.author # NoAuthor /\ user # v.author
    THEN [v EXCEPT !.response = "no_permission"]
    ELSE [v EXCEPT !.response = "edit_message",
                   !.shown = v.index,
                   !.shown_previous_disabled = v.previous_disabled,
                   !.shown_next_disabled = v.next_disabled]

\* Paginator.start 31-37: the message is sent with embeds[self.index] and the
\* view as it is
StartSend ==
    /\ pg.pc = "built"
    /\ pg' = [pg EXCEPT !.pc = "sending",
                        !.shown = pg.start_index,
                        !.shown_previous_disabled = pg.previous_disabled,
                        !.shown_next_disabled = pg.next_disabled]
    /\ UNCHANGED <<reserved, store, wf, call, ac>>

\* Paginator.start 39: the send has returned; set_index(self.index)
StartSetIndex ==
    /\ pg.pc = "sending"
    /\ pg' = [set_index(pg, pg.start_index) EXCEPT !.pc = "started"]
    /\ UNCHANGED <<reserved, store, wf, call, ac>>

\* The message is there, so its buttons can be pressed
MessageSent == pg.pc \in {"sending", "started"}

\* PaginatedView.previous 51-56
previous(user) ==
    /\ MessageSent
    /\ LET v == Interaction(pg, "previous", user, "")
       IN pg' = update(set_index(v, v.index - 1), user)
    /\ UNCHANGED <<reserved, store, wf, call, ac>>

\* Mutant of next: the last page is followed by the first
next_wraps(user) ==
    /\ MessageSent
    /\ LET v == Interaction(pg, "next", user, "")
       IN pg' = update(set_index(v, (v.index + 1) % v.embeds), user)
    /\ UNCHANGED <<reserved, store, wf, call, ac>>

\* PaginatedView.next 74-79
next(user) ==
    /\ MessageSent
    /\ LET v == Interaction(pg, "next", user, "")
       IN pg' = update(set_index(v, v.index + 1), user)
    /\ UNCHANGED <<reserved, store, wf, call, ac>>

\* PaginatedView.page 58-72: the permission message, or the modal is sent
page(user) ==
    /\ MessageSent
    /\ LET v == Interaction(pg, "page", user, "")
       IN pg' = IF v.author # NoAuthor /\ user # v.author
                THEN [v EXCEPT !.response = "no_permission"]
                ELSE [v EXCEPT !.response = "send_modal", !.modal = user]
    /\ UNCHANGED <<reserved, store, wf, call, ac>>

\* Mutant of on_submit: the isdigit test of 115 is skipped
on_submit_skips_isdigit(text) ==
    /\ pg.modal # 0
    /\ LET v == [Interaction(pg, "modal", pg.modal, text) EXCEPT !.modal = 0]
       IN pg' = IF IntRaises(text)
                THEN [v EXCEPT !.response = "ValueError"]
                ELSE update(set_index(v, int(text) - 1), v.user)
    /\ UNCHANGED <<reserved, store, wf, call, ac>>

\* PageModal.on_submit 112-125, by the user the modal was sent to
on_submit(text) ==
    /\ pg.modal # 0
    /\ LET v == [Interaction(pg, "modal", pg.modal, text) EXCEPT !.modal = 0]
       IN pg' = IF isdigit(text)
                THEN IF IntRaises(text)
                     THEN [v EXCEPT !.response = "ValueError"]
                     ELSE update(set_index(v, int(text) - 1), v.user)
                ELSE [v EXCEPT !.response = "invalid_page"]
    /\ UNCHANGED <<reserved, store, wf, call, ac>>

---------------------------------------------------------------------------
(* Lookup caches and tag_autocomplete: tags.py 20-21, 871-908 *)

maxsize == 2           \* capacity of each LRUCache (1000 in the source)
MaxPending == 1        \* tag_autocomplete calls awaiting their fetch

\* What the user has typed so far
Currents == {"", "a", "A", "b"}

\* An LRUCache is the sequence of its items, least recently used first
Keys(c) == {c[i].key : i \in 1..Len(c)}
Position(c, k) == CHOOSE i \in 1..Len(c) : c[i].key = k
Without(c, k) == SelectSeq(c, LAMBDA item : item.key # k)

\* cache[k]: the value
Value(c, k) == c[Position(c, k)].value

\* cache[k]: the key becomes the most recently used one
Touch(c, k) == Append(Without(c, k), c[Position(c, k)])

\* cache[k] = v: the least recently used items are dropped until the new key
\* fits; the key becomes the most recently used one
SetItem(c, k, v) ==
    IF k \in Keys(c) \/ Len(c) < maxsize
    THEN Append(Without(c, k), [key |-> k, value |-> v])
    ELSE Append(SubSeq(c, Len(c) - maxsize + 2, Len(c)), [key |-> k, value |-> v])

\* name ILIKE prefix || '%' on the names of the model, which have one letter
ILike(name, prefix) == prefix = "" \/ Lower(name) = Lower(prefix)

\* SELECT * FROM tags WHERE guild_id = $1 AND name ILIKE $2 AND deleted = FALSE
\* ORDER BY name ASC (rows of one name in insertion order)
FetchPrefix(s, g, prefix) ==
    LET hit(r) == r.guild = g /\ ILike(r.name, prefix) /\ ~r.deleted
    IN SelectSeq(s, LAMBDA r : hit(r) /\ r.name = "A")
       \o SelectSeq(s, LAMBDA r : hit(r) /\ r.name = "a")
       \o SelectSeq(s, LAMBDA r : hit(r) /\ r.name = "b")

\* [tag["name"] for tag in tag_records]
NamesOf(tag_records) == [i \in 1..Len(tag_records) |-> tag_records[i].name]

NoResponse == << "<pending>" >>

\* Empty caches, no call made
NoQueries ==
    [tag_cache |-> << >>, autocomplete_cache |-> << >>, pending |-> {},
     event |-> "none", guild |-> 0, current |-> "", response |-> NoResponse]

\* f"{interaction.guild.id}:{current.lower()}"
CacheKey(g, current) == <<g, Lower(current)>>

\* line 879: cache_key in self.autocomplete_cache
CachedAnswer(c, g, current) == CacheKey(g, current) \in Keys(c)

\* lines 885-886: the guild is in tag_cache and the prefix in its dictionary
CachedRecords(c, g, prefix) ==
    g \in Keys(c) /\ prefix \in DOMAIN Value(c, g)

\* Mutant of tag_autocomplete: the caches are not consulted, every call fetches
tag_autocomplete_always_fetches(g, current) ==
    /\ Cardinality(ac.pending) < MaxPending
    /\ ac' = [ac EXCEPT !.event = "called", !.guild = g, !.current = current,
                        !.pending = @ \cup {[guild |-> g, current |-> current]},
                        !.response = NoResponse]
    /\ UNCHANGED <<reserved, store, wf, call, pg>>

\* tag_autocomplete 875-892 and 904-908: answered from autocomplete_cache, or
\* from tag_cache and then cached, or the fetch is issued
tag_autocomplete(g, current) ==
    LET prefix == Lower(current)
        asked == [ac EXCEPT !.event = "called", !.guild = g, !.current = current]
    IN /\ IF CachedAnswer(ac.autocomplete_cache, g, current)
          THEN LET tag_records == Value(ac.autocomplete_cache, CacheKey(g, current))
               IN ac' = [asked EXCEPT
                           !.autocomplete_cache = Touch(@, CacheKey(g, current)),
                           !.response = NamesOf(tag_records)]
          ELSE IF CachedRecords(ac.tag_cache, g, prefix)
               THEN LET tag_records == Value(ac.tag_cache, g)[prefix]
                    IN ac' = [asked EXCEPT
                                !.tag_cache = Touch(@, g),
                                !.autocomplete_cache =
                                    SetItem(@, CacheKey(g, current), tag_records),
                                !.response = NamesOf(tag_records)]
               ELSE /\ Cardinality(ac.pending) < MaxPending
                    /\ ac' = [asked EXCEPT
                                !.tag_cache = IF g \in Keys(@) THEN Touch(@, g) ELSE @,
                                !.pending = @ \cup {[guild |-> g, current |-> current]},
                                !.response = NoResponse]
       /\ UNCHANGED <<reserved, store, wf, call, pg>>

\* tag_autocomplete 892-908: the fetch completes; the records are stored in
\* the dictionary of the guild in tag_cache and in autocomplete_cache
AutocompleteFetched(q) ==
    /\ q \in ac.pending
    /\ LET g == q.guild
           prefix == Lower(q.current)
           tag_records == FetchPrefix(store, g, prefix)
           with_guild == IF g \in Keys(ac.tag_cache)
                         THEN ac.tag_cache
                         ELSE SetItem(ac.tag_cache, g, [x \in {} |-> << >>])
           by_prefix == Value(with_guild, g)
           filled == [x \in DOMAIN by_prefix \cup {prefix} |->
                         IF x = prefix THEN tag_records ELSE by_prefix[x]]
           moved == Touch(with_guild, g)
       IN ac' = [ac EXCEPT
                   !.event = "fetched", !.guild = g, !.current = q.current,
                   !.pending = @ \ {q},
                   !.tag_cache = [moved EXCEPT ![Len(moved)].value = filled],
                   !.autocomplete_cache = SetItem(@, CacheKey(g, q.current), tag_records),
                   !.response = NamesOf(tag_records)]
    /\ UNCHANGED <<reserved, store, wf, call, pg>>

---------------------------------------------------------------------------
(* tags list: tags.py 64-131 *)

ChunkSize == 1         \* tags on one page (15 in the source)

\* No user given: the tags of every owner are listed
NoFilter == 0

\* The starting_page values tried
StartingPages == 0..(MaxPages + 1)

\* The SELECTs of lines 83-88: the non-deleted tags of the guild, of one owner
\* when a user is given
ListedTags(s, g, user) ==
    SelectSeq(s, LAMBDA r : /\ r.guild = g
                            /\ ~r.deleted
                            /\ (user = NoFilter \/ r.owner_id = user))

\* len(embeds), lines 92-113: one embed saying there are no tags, or one embed
\* per chunk
NumberOfEmbeds(tags) ==
    IF tags = << >>
    THEN 1
    ELSE (Len(tags) + ChunkSize - 1) \div ChunkSize

\* Mutant of PageExists: the lower end of the range is not tested
PageExistsNoLowerEnd(starting_page, embeds) == starting_page - 1 < embeds

\* line 115: 0 <= (starting_page - 1) < len(embeds)
PageExists(starting_page, embeds) ==
    0 <= starting_page - 1 /\ starting_page - 1 < embeds

\* list_tags 82-131: the fetch completes; 'That page does not exist.', or the
\* paginator is constructed and started (up to its send), or the single embed
\* is sent
list_tags(p, g, u, user, starting_page) ==
    /\ Fresh(p)
    /\ LET w == [Invoke("list", g, u, "") EXCEPT !.target = user,
                                                !.starting_page = starting_page]
           tags == ListedTags(store, g, user)
           embeds == NumberOfEmbeds(tags)
       IN IF ~PageExists(starting_page, embeds)
          THEN /\ wf' = [wf EXCEPT ![p] = Ended(w, "page_does_not_exist")]
               /\ pg' = pg
          ELSE IF tags # << >>
               THEN /\ pg.pc = "none"
                    /\ pg' = Paginator(embeds, starting_page - 1, u)
                    /\ wf' = [wf EXCEPT ![p] = Ended(w, "paginator")]
               ELSE /\ wf' = [wf EXCEPT ![p] = Ended(w, "no_tags")]
                    /\ pg' = pg
    /\ UNCHANGED <<reserved, store, call, ac>>

---------------------------------------------------------------------------
(* Specifications *)

\* The relation outlives the process.  Contents the commands can leave behind:
\* nothing; one tag; two tags of one guild; a tag viewed twice, deleted and
\* created again; a deleted tag; the same name in two guilds.
InitStores ==
    { << >>,
      << Row(1, "a", 1, "x", FALSE) >>,
      << Row(1, "a", 1, "x", FALSE), Row(1, "b", 1, "x", FALSE) >>,
      << [Row(1, "a", 1, "x", TRUE) EXCEPT !.uses = 2], Row(1, "a", 1, "*y", FALSE) >>,
      << Row(1, "a", 1, "x", TRUE) >>,
      << Row(1, "a", 1, "x", FALSE), Row(2, "a", 1, "x", FALSE) >> }

\* TagsCog.__init__ (17-23): no reservation; no command has been invoked
Init ==
    /\ reserved = [g \in {} |-> {}]
    /\ store \in InitStores
    /\ wf = [p \in Procs |-> Idle]
    /\ call = NoCall
    /\ pg = NoPaginator
    /\ ac = NoQueries

ViewNext ==
    /\ UNCHANGED <<pg, ac>>
    /\ \E p \in Procs :
           \/ \E g \in Guilds, n \in TagNames, raw \in BOOLEAN : ViewStart(p, g, n, raw)
           \/ \E ok \in BOOLEAN : ViewUpdate(p, ok)

CreateNext ==
    /\ UNCHANGED <<pg, ac>>
    /\ \E p \in Procs :
           \/ \E g \in Guilds, u \in Users, n \in TagNames : CreateStart(p, g, u, n)
           \/ \E message \in Messages(Contents) : CreateReply(p, message)
           \/ CreateTimeout(p)
           \/ \E ok \in BOOLEAN : CreateInsert(p, ok)

RenameNext ==
    /\ UNCHANGED <<pg, ac>>
    /\ \E p \in Procs :
           \/ \E g \in Guilds, u \in Users, n \in TagNames, new_name \in TagNames :
                 RenameStart(p, g, u, n, new_name)
           \/ RenameFetched(p)
           \/ \E ok \in BOOLEAN : RenameUpdate(p, ok)

EditNext ==
    /\ UNCHANGED <<pg, ac>>
    /\ \E p \in Procs :
           \/ \E g \in Guilds, u \in Users, n \in TagNames : EditStart(p, g, u, n)
           \/ \E message \in Messages(Contents) : EditReply(p, message)
           \/ EditTimeout(p)
           \/ \E ok \in BOOLEAN : EditUpdate(p, ok)

DeleteNext ==
    /\ UNCHANGED <<pg, ac>>
    /\ \E p \in Procs :
           \/ \E g \in Guilds, u \in Users, n \in TagNames : DeleteStart(p, g, u, n)
           \/ DeleteFetched(p)
           \/ \E ok \in BOOLEAN : DeleteHard(p, ok)
           \/ \E ok \in BOOLEAN : DeleteSoft(p, ok)

RestoreNext ==
    /\ UNCHANGED <<pg, ac>>
    /\ \E p \in Procs :
           \/ \E g \in Guilds, u \in Users, n \in TagNames : RestoreStart(p, g, u, n)
           \/ RestoreFetched(p)
           \/ \E ok \in BOOLEAN : RestorePlain(p, ok)
           \/ \E message \in Messages(TagNames \cup {""}) : RestoreReply(p, message)
           \/ RestoreTimeout(p)
           \/ RestoreVerify(p)
           \/ \E ok \in BOOLEAN : RestoreUpdate(p, ok)

TransferNext ==
    /\ UNCHANGED <<pg, ac>>
    /\ \E p \in Procs :
           \/ \E g \in Guilds, u \in Users, n \in TagNames, target \in Users \cup BotUsers :
                 TransferStart(p, g, u, n, target)
           \/ \E ok \in BOOLEAN : TransferUpdate(p, ok)

ClaimNext ==
    /\ UNCHANGED <<pg, ac>>
    /\ \E p \in Procs :
           \/ \E g \in Guilds, u \in Users, n \in TagNames : ClaimStart(p, g, u, n)
           \/ \E present \in BOOLEAN : ClaimMember(p, present)
           \/ \E ok \in BOOLEAN : ClaimUpdate(p, ok)

Next ==
    \/ ViewNext
    \/ CreateNext
    \/ RenameNext
    \/ EditNext
    \/ DeleteNext
    \/ RestoreNext
    \/ TransferNext
    \/ ClaimNext

\* Every command, invoked by any user in any guild, in any interleaving
Spec == Init /\ [][Next]_vars

\* Only create workflows run
SpecCreate == Init /\ [][CreateNext]_vars

\* Only create and view workflows run
SpecRoundTrip == Init /\ [][CreateNext \/ ViewNext]_vars

\* Only the workflows that wait for a reply run: create, edit and restore
SpecReply == Init /\ [][CreateNext \/ EditNext \/ RestoreNext]_vars

\* A paginator over 1..MaxPages embeds, started at any index of its range,
\* with or without an author
InitPaginator ==
    /\ reserved = [g \in {} |-> {}]
    /\ store = << >>
    /\ wf = [p \in Procs |-> Idle]
    /\ call = NoCall
    /\ ac = NoQueries
    /\ pg \in {Paginator(embeds, index, author) :
                 embeds \in 1..MaxPages, index \in 0..(MaxPages - 1),
                 author \in {NoAuthor, 1}}
    /\ pg.start_index < pg.embeds

PaginatorNext ==
    \/ StartSend
    \/ StartSetIndex
    \/ \E user \in PageUsers : previous(user)
    \/ \E user \in PageUsers : next(user)
    \/ \E user \in PageUsers : page(user)
    \/ \E text \in PageTexts : on_submit(text)

\* One paginator and the interactions with its message, in any order
SpecPaginator == InitPaginator /\ [][PaginatorNext]_vars

\* Direct calls on the reservation table, in any order
TableNext ==
    /\ UNCHANGED <<pg, ac>>
    /\ \E g \in Guilds, n \in Names :
           \/ TableReserve(g, n)
           \/ TableRelease(g, n)
           \/ TableQuery(g, n)

SpecTable == Init /\ [][TableNext]_vars

\* tags list, by a member or a moderator, of all tags or of those of user 1
ListNext ==
    \E p \in Procs, g \in Guilds, u \in PageUsers, user \in {NoFilter, 1},
       starting_page \in StartingPages :
        list_tags(p, g, u, user, starting_page)

\* tags list and the interactions with the paginator it starts
SpecList == Init /\ [][ListNext \/ PaginatorNext]_vars

AutocompleteNext ==
    \/ \E g \in Guilds, current \in Currents : tag_autocomplete(g, current)
    \/ \E q \in ac.pending : AutocompleteFetched(q)

\* Autocomplete queries over a relation that no command changes
SpecAutocomplete == Init /\ [][AutocompleteNext]_vars

\* A moderator creates, renames, deletes and restores the tag "a" of guild 1
WritesNext ==
    /\ UNCHANGED <<pg, ac>>
    /\ \E p \in Procs :
           \/ CreateStart(p, 1, 2, "a")
           \/ \E message \in Messages(Contents) : CreateReply(p, message)
           \/ CreateTimeout(p)
           \/ \E ok \in BOOLEAN : CreateInsert(p, ok)
           \/ RenameStart(p, 1, 2, "a", "b")
           \/ RenameFetched(p)
           \/ \E ok \in BOOLEAN : RenameUpdate(p, ok)
           \/ DeleteStart(p, 1, 2, "a")
           \/ DeleteFetched(p)
           \/ \E ok \in BOOLEAN : DeleteHard(p, ok)
           \/ \E ok \in BOOLEAN : DeleteSoft(p, ok)
           \/ RestoreStart(p, 1, 2, "a")
           \/ RestoreFetched(p)
           \/ \E ok \in BOOLEAN : RestorePlain(p, ok)
           \/ \E message \in Messages(TagNames \cup {""}) : RestoreReply(p, message)
           \/ RestoreTimeout(p)
           \/ RestoreVerify(p)
           \/ \E ok \in BOOLEAN : RestoreUpdate(p, ok)

\* Autocomplete queries in guild 1
GuildQueriesNext ==
    \/ \E current \in Currents : tag_autocomplete(1, current)
    \/ \E q \in ac.pending : AutocompleteFetched(q)

\* Autocomplete queries in guild 1 while its tags are written
SpecStaleCache == Init /\ [][WritesNext \/ GuildQueriesNext]_vars

---------------------------------------------------------------------------
(* Claims *)

\* The name a workflow reserves: create its tag, rename its new name, restore
\* the replied name
ReservedName(w) ==
    CASE w.op = "create" -> w.tag
      [] w.op = "rename" -> w.arg
      [] OTHER -> w.msg

LiveExists(s, g, n) == Matching(s, n, g, FALSE) # {}

\* C1: after add_in_progress_tag(G,N) and before remove_in_progress_tag(G,N),
\* is_tag_being_made(G,N) returns true; after the release it returns false.
\* As a statement about every lookup: it answers whether (G,N) is in the table.
C1_LookupAnswersMembership ==
    call.op = "is_tag_being_made" =>
        call.result = (IF Held(reserved, call.guild, call.name) THEN "True" ELSE "False")

\* create has issued its INSERT
ReachedInsert(p) ==
    /\ wf[p].op = "create"
    /\ wf[p].pc = "c_insert" \/ wf[p].out \in {"created", "DbError"}

\* C2: of two create workflows for the same guild and name, at most one
\* reaches the INSERT, in every interleaving of their steps.
C2_AtMostOneCreatePersists ==
    \A p, q \in Procs :
        (p # q /\ wf[p].guild = wf[q].guild /\ wf[p].tag = wf[q].tag)
            => ~(ReachedInsert(p) /\ ReachedInsert(q))

\* C2 witness: one create has inserted, and the other, for the same guild and
\* name, was stopped at its check while the first held the reservation.
C2_Witness ==
    \E p, q \in Procs :
        /\ p # q
        /\ wf[p].op = "create" /\ wf[q].op = "create"
        /\ wf[p].guild = wf[q].guild /\ wf[p].tag = wf[q].tag
        /\ wf[p].out = "created"
        /\ wf[q].pc = "done" /\ wf[q].out = "NameError"

\* C3: a create invoked for (G,N) while N is reserved in G ends with the
\* message 'That tag already exists.': no exception leaves the handler and
\* the store is not written.
C3_ReservedCreateRejected ==
    [][\A p \in Procs :
          (/\ wf[p].pc = "idle"
           /\ wf'[p].op = "create"
           /\ Held(reserved, wf'[p].guild, wf'[p].tag))
          => (/\ wf'[p].pc = "done"
              /\ wf'[p].out = "already_exists"
              /\ store' = store)]_vars

\* C4: in every reachable state the store holds at most one non-deleted row
\* per (guild_id, name).
C4_UniqueLiveName ==
    \A i, j \in 1..Len(store) :
        (i # j /\ ~store[i].deleted /\ ~store[j].deleted /\ store[i].guild = store[j].guild)
            => store[i].name # store[j].name

\* C5: when the reply wait of a create for (G,N) times out, the reservation
\* of N in G is released.
C5_TimeoutReleases ==
    [][\A p \in Procs :
          (wf[p].pc = "c_wait" /\ wf'[p].pc = "done" /\ wf'[p].msg = NoMsg)
          => ~Held(reserved', wf[p].guild, wf[p].tag)]_vars

\* C6: when the reply wait of create, edit or restore-with-rename times out
\* (the wait ends with no message), the workflow ends there with the 'took too
\* long' notice, it has written nothing to the store and the step writes
\* nothing; a workflow that has ended takes no further step.
C6_TimeoutWritesNothing ==
    [][\A p \in Procs :
          /\ (/\ wf[p].pc \in {"c_wait", "e_wait", "rs_wait"}
              /\ wf'[p] # wf[p]
              /\ wf'[p].msg = NoMsg)
             => (/\ store' = store
                 /\ wf'[p].pc = "done"
                 /\ wf'[p].out = "took_too_long"
                 /\ wf'[p].writes = 0)
          /\ wf[p].pc = "done" => wf'[p] = wf[p]]_vars

\* C6 witness: an edit and a restore-with-rename have both timed out.
C6_Witness ==
    \E p, q \in Procs :
        /\ wf[p].op = "edit" /\ wf[p].out = "took_too_long"
        /\ wf[q].op = "restore" /\ wf[q].out = "took_too_long"

\* C7: in create, rename and restore-with-rename the name is no longer
\* reserved once the persistence step is over, whether the write succeeded
\* or failed.
C7_ReleasedAfterWrite ==
    [][\A p \in Procs :
          (wf[p].pc \in {"c_insert", "rn_update", "rs_update"} /\ wf'[p].pc = "done")
          => ~Held(reserved', wf[p].guild, ReservedName(wf[p]))]_vars

\* C8: a rename whose new name is the name of a non-deleted tag of the guild,
\* or is reserved in the guild, aborts with the 'already exists' message and
\* leaves the store unchanged.  Stated for a new name other than the tag's own.
C8_RenameToTakenNameAborts ==
    [][\A p \in Procs :
          (/\ wf[p].pc = "rn_fetch"
           /\ wf'[p] # wf[p]
           /\ wf[p].arg # wf[p].tag
           /\ \/ LiveExists(store, wf[p].guild, wf[p].arg)
              \/ Held(reserved, wf[p].guild, wf[p].arg))
          => (/\ wf'[p].pc = "done"
              /\ wf'[p].out = "name_exists"
              /\ store' = store)]_vars

\* C9: a restore that finds a non-deleted row of the same (guild, name) writes
\* nothing at that step and asks for a new name; a row is un-deleted on this
\* path only by the final UPDATE and then carries the replied name, which was
\* accepted only when it named no non-deleted row of the guild.
C9_RestoreCollisionRenames ==
    [][\A p \in Procs :
          (wf[p].op = "restore" /\ wf'[p] # wf[p]) =>
            /\ (wf[p].pc = "rs_dup" /\ LiveExists(store, wf[p].guild, wf[p].tag))
                  => (wf'[p].pc = "rs_wait" /\ store' = store)
            /\ wf[p].pc \in {"rs_wait", "rs_verify", "rs_update"}
                  => /\ Len(store') = Len(store)
                     /\ \A i \in 1..Len(store) :
                          (store[i].deleted /\ ~store'[i].deleted)
                              => (wf[p].pc = "rs_update" /\ store'[i].name = wf[p].msg)
            /\ (wf[p].pc = "rs_verify" /\ wf'[p].pc = "rs_update")
                  => ~LiveExists(store, wf[p].guild, wf[p].msg)]_vars

\* C9 witness: a restore met a collision and the row was restored under the
\* replied name while the row it collided with is still there.
C9_Witness ==
    \E p \in Procs :
        /\ wf[p].op = "restore" /\ wf[p].out = "renamed_and_restored"
        /\ wf[p].msg # wf[p].tag
        /\ LiveExists(store, wf[p].guild, wf[p].tag)
        /\ LiveExists(store, wf[p].guild, wf[p].msg)

\* C10: in restore-with-rename a replied name that is empty, reserved in the
\* guild, or the name of a non-deleted tag of the guild makes the workflow end
\* with a message, with no store write and no reservation taken.
C10_BadNewNameAborts ==
    [][\A p \in Procs :
          /\ (/\ wf[p].pc = "rs_wait"
              /\ wf'[p].msg # NoMsg
              /\ wf'[p].msg = "" \/ Held(reserved, wf[p].guild, wf'[p].msg))
             => (/\ wf'[p].pc = "done"
                 /\ wf'[p].out \in {"invalid_name", "name_taken"}
                 /\ store' = store /\ reserved' = reserved)
          /\ (/\ wf[p].pc = "rs_verify"
              /\ wf'[p] # wf[p]
              /\ LiveExists(store, wf[p].guild, wf[p].msg))
             => (/\ wf'[p].pc = "done"
                 /\ wf'[p].out = "name_taken"
                 /\ store' = store /\ reserved' = reserved)]_vars


\* C11: in rename, edit, delete and transfer the permission check precedes
\* every store mutation: no step of an invocation whose invoker is neither the
\* recorded owner, nor holds manage_guild, nor is the bot owner changes the
\* store.
C11_NoWriteWithoutPermission ==
    [][\A p \in Procs :
          (/\ wf[p].op \in {"rename", "edit", "delete", "transfer"}
           /\ wf[p].owner # NoRecord
           /\ ~check_permissions(wf[p].owner, wf[p].user)
           /\ wf'[p] # wf[p])
          => store' = store]_vars


\* The relation holds a row of guild g named n with the given deleted flag
HasRow(g, n, deleted) ==
    \E i \in 1..Len(store) :
        store[i].guild = g /\ store[i].name = n /\ store[i].deleted = deleted

\* C12: rename, edit, delete, transfer and claim invoked on a name with no
\* non-deleted row in the guild, and restore invoked on a name with no deleted
\* row in the guild, end with the 'does not exist' message and write nothing.
C12_AbsentTagNotFound ==
    [][\A p \in Procs :
          (/\ wf[p].pc = "idle"
           /\ \/ /\ wf'[p].op \in {"rename", "edit", "delete", "transfer", "claim"}
                 /\ ~HasRow(wf'[p].guild, wf'[p].tag, FALSE)
              \/ /\ wf'[p].op = "restore"
                 /\ ~HasRow(wf'[p].guild, wf'[p].tag, TRUE))
          => (/\ wf'[p].pc = "done"
              /\ wf'[p].out = "does_not_exist"
              /\ wf'[p].writes = 0
              /\ store' = store)]_vars

\* C12 witness: a claim and a restore have both ended with 'does not exist'.
C12_Witness ==
    \E p, q \in Procs :
        /\ wf[p].op = "claim" /\ wf[p].out = "does_not_exist"
        /\ wf[q].op = "restore" /\ wf[q].out = "does_not_exist"


\* Number of rows of guild g named n with the given deleted flag
CountRows(s, g, n, deleted) ==
    Cardinality({i \in 1..Len(s) :
                    s[i].guild = g /\ s[i].name = n /\ s[i].deleted = deleted})

\* C13: a permitted delete of N in G soft-deletes the non-deleted row; when a
\* deleted row of (G,N) existed, the hard DELETE removes only that older row
\* (the non-deleted rows stay); once the delete has answered, (G,N) has no
\* non-deleted row and exactly one deleted row.
C13_DeleteKeepsOneDeletedRow ==
    [][\A p \in Procs :
          /\ (wf[p].pc = "d_hard" /\ wf'[p].writes = wf[p].writes + 1)
                => CountRows(store', wf[p].guild, wf[p].tag, FALSE)
                      = CountRows(store, wf[p].guild, wf[p].tag, FALSE)
          /\ (wf[p].pc = "d_soft" /\ wf'[p].out = "deleted")
                => /\ CountRows(store', wf[p].guild, wf[p].tag, FALSE) = 0
                   /\ CountRows(store', wf[p].guild, wf[p].tag, TRUE) = 1]_vars


\* C14: a claim changes the store only after the membership lookup of the
\* recorded owner raised NotFound, and its UPDATE then leaves the claimant as
\* the owner of the tag; when the lookup returns the member the claim ends
\* with the store unchanged; a claim never waits for a reply.
C14_ClaimOnlyWhenOwnerGone ==
    [][\A p \in Procs :
          (wf'[p].op = "claim" /\ wf'[p] # wf[p]) =>
            /\ store' # store => wf[p].member = "NotFound"
            /\ (wf[p].pc = "cl_member" /\ wf'[p].member = "Member")
                  => (/\ wf'[p].pc = "done"
                      /\ wf'[p].out = "owner_still_present"
                      /\ wf'[p].writes = 0)
            /\ (wf[p].pc = "cl_member" /\ wf'[p].member = "NotFound")
                  => wf'[p].pc = "cl_update"
            /\ (wf[p].pc = "cl_update" /\ wf'[p].out = "claimed")
                  => \A i \in 1..Len(store') :
                        (store'[i].guild = wf[p].guild /\ store'[i].name = wf[p].tag)
                            => store'[i].owner_id = wf[p].user
            /\ wf'[p].pc \in {"cl_member", "cl_update", "done"}]_vars

\* C14 witness: one claim took over a tag of an absent owner and another was
\* refused because the owner is still a member.
C14_Witness ==
    \E p, q \in Procs :
        /\ wf[p].op = "claim" /\ wf[p].out = "claimed" /\ wf[p].owner # wf[p].user
        /\ \E i \in 1..Len(store) :
              /\ store[i].guild = wf[p].guild /\ store[i].name = wf[p].tag
              /\ ~store[i].deleted /\ store[i].owner_id = wf[p].user
        /\ wf[q].op = "claim" /\ wf[q].out = "owner_still_present"


\* A create of the tag that view p asks for has completed in p's guild
CreatedFor(w, q) ==
    /\ wf[q].op = "create" /\ wf[q].out = "created"
    /\ wf[q].guild = w.guild /\ wf[q].tag = w.tag

\* No other view of the same guild and name has been invoked
OnlyView(p, w) ==
    \A r \in Procs \ {p} :
        ~(wf[r].op = "view" /\ wf[r].guild = w.guild /\ wf[r].tag = w.tag)

\* C15: once a create of (G,N) has completed with the reply as content, a view
\* of N in G shows that content (raw not asked for), and the first such view
\* reads uses 0 and leaves the tag with uses 1.
C15_CreateThenView ==
    [][\A p, q \in Procs :
          /\ (wf[p].pc = "idle" /\ wf'[p].op = "view" /\ CreatedFor(wf'[p], q))
                => /\ wf'[p].pc = "v_update"
                   /\ ~wf'[p].raw => wf'[p].shown = wf[q].msg
                   /\ OnlyView(p, wf'[p]) => wf'[p].uses = 0
          /\ (/\ wf[p].pc = "v_update" /\ wf'[p].writes = 1
              /\ CreatedFor(wf[p], q) /\ OnlyView(p, wf[p]))
                => /\ HasRow(wf[p].guild, wf[p].tag, FALSE)
                   /\ \A i \in 1..Len(store) :
                        (/\ store[i].guild = wf[p].guild /\ store[i].name = wf[p].tag
                         /\ ~store[i].deleted)
                            => (store[i].uses = 0 /\ store'[i].uses = 1)]_vars

\* C15 witness: a tag was created with a reply and then viewed: the view
\* showed the reply and the tag's uses is 1.
C15_Witness ==
    \E p, q \in Procs :
        /\ CreatedFor(wf[p], q)
        /\ wf[p].op = "view" /\ wf[p].pc = "done" /\ wf[p].writes = 1
        /\ ~wf[p].raw /\ wf[p].shown = wf[q].msg /\ wf[q].msg = "*y"
        /\ \E i \in 1..Len(store) :
              /\ store[i].guild = wf[p].guild /\ store[i].name = wf[p].tag
              /\ ~store[i].deleted /\ store[i].uses = 1


C17_UsesNeverDecrease ==
    [][Len(store') >= Len(store)
          => \A i \in 1..Len(store) : store'[i].uses >= store[i].uses]_vars


\* The step is taken by a handler completing one of the statements that
\* change a name or a content: the UPDATE of rename, edit or restore-with-rename
EditingStep ==
    \E p \in Procs :
        wf'[p] # wf[p] /\ wf[p].pc \in {"rn_update", "e_update", "rs_update"}

\* C18: a created row has last_edited_at equal to created_at; a step that
\* changes the name or the content of a row sets its last_edited_at to a later
\* time; a step of any operation other than edit, rename and
\* restore-with-rename leaves last_edited_at of every row unchanged.
C18_LastEditedTracksChanges ==
    [][/\ Len(store') = Len(store) + 1
            => store'[Len(store')].last_edited_at = store'[Len(store')].created_at
       /\ Len(store') = Len(store)
            => \A i \in 1..Len(store) :
                  /\ (store'[i].name # store[i].name \/ store'[i].content # store[i].content)
                        => store'[i].last_edited_at > store[i].last_edited_at
                  /\ ~EditingStep
                        => store'[i].last_edited_at = store[i].last_edited_at]_vars


\* The request of the step asks for a page outside the range: previous on the
\* first page, next on the last, a jump to a page number outside 1..len(pages)
OutOfRangeRequest ==
    \/ pg'.request = "previous" /\ pg.index = 0
    \/ pg'.request = "next" /\ pg.index = pg.embeds - 1
    \/ /\ pg'.request = "modal" /\ pg'.text \in {"0", "1", "2", "3", "4", "5"}
       /\ ~(1 <= int(pg'.text) /\ int(pg'.text) <= pg.embeds)

\* A button was pressed or the modal submitted in this step
Requested ==
    pg.pc \in {"sending", "started"} /\ pg'.pc = pg.pc /\ pg' # pg

\* C19: for a paginator over a non-empty page sequence started at an index of
\* its range, 0 <= index < len(pages) holds in every state that previous,
\* next and jump-to-page requests can reach, and a request for a page outside
\* the range leaves the index as it is and is answered without an exception.
C19_IndexInRange ==
    /\ [](pg.pc # "none" => (0 <= pg.index /\ pg.index < pg.embeds))
    /\ [][(Requested /\ OutOfRangeRequest)
            => (/\ pg'.index = pg.index
                /\ pg'.response \in {"edit_message", "no_permission"})]_vars

\* C19 witness: on the last of three pages, after a jump to page 5 has been
\* answered by an edit of the message.
C19_Witness ==
    /\ pg.embeds = 3 /\ pg.index = 2 /\ pg.pc = "started"
    /\ pg.request = "modal" /\ pg.text = "5"
    /\ pg.response = "edit_message" /\ pg.shown = 2


\* C20: next moves the index forward by exactly one page when it is not on
\* the last page and leaves it alone on the last page; previous moves it back
\* by exactly one when it is not on the first page and leaves it alone on the
\* first page.
C20_NextPreviousByOne ==
    [][/\ (Requested /\ pg'.request = "next")
            => pg'.index = (IF pg.index = pg.embeds - 1 THEN pg.index ELSE pg.index + 1)
       /\ (Requested /\ pg'.request = "previous")
            => pg'.index = (IF pg.index = 0 THEN pg.index ELSE pg.index - 1)]_vars

\* C20 witness: three pages, started at index 0; next was pressed on the last
\* page and the index is still 2.
C20_Witness ==
    /\ pg.embeds = 3 /\ pg.start_index = 0 /\ pg.pc = "started"
    /\ pg.index = 2 /\ pg.request = "next" /\ pg.response = "edit_message"
    /\ pg.shown = 2 /\ pg.shown_next_disabled


\* C21: after every navigation request (previous, next, jump-to-page) the
\* previous button is disabled exactly when index = 0 and the next button is
\* disabled exactly when index = len(pages) - 1.
C21_ButtonsMatchIndex ==
    pg.request \in {"previous", "next", "modal"}
        => /\ pg.previous_disabled = (pg.index = 0)
           /\ pg.next_disabled = (pg.index = pg.embeds - 1)

\* A step of PageModal.on_submit: the modal that was open is answered
Submitted == pg.modal # 0 /\ pg'.modal = 0

\* What set_index and update can change: the index, the two disabled flags
\* and what the message shows
PaginatorState(v) ==
    <<v.index, v.previous_disabled, v.next_disabled,
      v.shown, v.shown_previous_disabled, v.shown_next_disabled>>

\* C22: a jump submission whose text is not numeric (such as "abc") leaves the
\* index and the states of the buttons unchanged, whatever the state of the
\* paginator, and is answered with 'That page number is invalid.'
C22_NonNumericJumpRejected ==
    [][(Submitted /\ ~isdigit(pg'.text))
          => /\ pg'.response = "invalid_page"
             /\ PaginatorState(pg') = PaginatorState(pg)]_vars

\* A non-numeric submission was answered while the paginator was past its
\* first page
C22_Witness ==
    /\ pg.request = "modal" /\ pg.text = "abc"
    /\ pg.response = "invalid_page"
    /\ pg.index > 0

\* C23: with a restricted author, a navigation attempt (previous, next, page
\* jump) by another user is answered with the permission message and leaves
\* the index and the disabled flags unchanged.
C23_OtherUserChangesNothing ==
    [][(/\ Requested
        /\ pg.author # NoAuthor
        /\ pg'.user # pg.author
        /\ pg'.request \in {"previous", "next", "page"})
          => /\ pg'.response = "no_permission"
             /\ pg'.index = pg.index
             /\ pg'.previous_disabled = pg.previous_disabled
             /\ pg'.next_disabled = pg.next_disabled]_vars

\* C24: a numeric jump submission of the 1-based page number k sets the index
\* to k - 1 when 1 <= k <= len(pages), and leaves the index unchanged without
\* raising when k is 0 or greater than len(pages).
C24_NumericJump ==
    [][(Submitted /\ isdigit(pg'.text))
          => /\ pg'.response # "ValueError"
             /\ ~IntRaises(pg'.text)
                  => LET k == int(pg'.text)
                     IN pg'.index = IF 1 <= k /\ k <= pg.embeds
                                    THEN k - 1
                                    ELSE pg.index]_vars

\* Workflow p starts awaiting its reply in this step (create 285, restore 609)
StartsAwaitingReply(p) ==
    /\ wf[p].pc \notin {"c_wait", "rs_wait"}
    /\ wf'[p].pc \in {"c_wait", "rs_wait"}

\* C25: a workflow that reserves a name (create, rename, restore with a new
\* name) runs existence check, reservation, reply wait and write in that order:
\* when it starts awaiting the reply its reservation is already recorded.
C25_ReservedBeforeReplyWait ==
    [][\A p \in Procs :
          StartsAwaitingReply(p)
             => IF wf'[p].op = "create"
                THEN Held(reserved', wf'[p].guild, wf'[p].tag)
                ELSE \E n \in Names : Held(reserved', wf'[p].guild, n)]_vars

\* Workflow p is suspended in bot.wait_for (create 285, edit 445, restore 609)
AwaitingReply(p) == wf[p].pc \in {"c_wait", "e_wait", "rs_wait"}

\* C26: at most one reply collector waits per (guild, tag name): a second
\* workflow for the same guild and name does not begin awaiting a reply before
\* the first one has resolved by reply or timeout.
C26_OneCollectorPerName ==
    \A p, q \in Procs :
        (p # q /\ AwaitingReply(p) /\ AwaitingReply(q))
            => ~(wf[p].guild = wf[q].guild /\ Lower(wf[p].tag) = Lower(wf[q].tag))

\* wait_for returned a message to workflow p in this step
ReplyResolved(p) ==
    /\ wf[p].pc \in {"c_wait", "e_wait", "rs_wait"}
    /\ wf'[p].message # NoMessage

\* Workflow p completed its write in this step
Persisted(p) == wf'[p].writes = wf[p].writes + 1

\* C27: a reply wait resolves only on a message sent in the invoking channel
\* by the invoking user, and the content of the first such message is what is
\* persisted: the tag content for create and edit, the new name for restore.
C27_ReplyFromInvokerPersisted ==
    [][\A p \in Procs :
          /\ ReplyResolved(p)
                => /\ wf'[p].message.channel = InteractionChannel
                   /\ wf'[p].message.author = wf[p].user
          /\ wf[p].message # NoMessage => wf'[p].message = wf[p].message
          /\ (Persisted(p) /\ wf[p].pc = "c_insert")
                => /\ Len(store') = Len(store) + 1
                   /\ store'[Len(store')].name = wf[p].tag
                   /\ store'[Len(store')].content = wf[p].message.content
          /\ (Persisted(p) /\ wf[p].pc = "e_update")
                => \A i \in 1..Len(store') :
                      (store'[i].guild = wf[p].guild /\ store'[i].name = wf[p].tag)
                          => store'[i].content = wf[p].message.content
          /\ (Persisted(p) /\ wf[p].pc = "rs_update")
                => \A i \in 1..Len(store) :
                      (/\ store[i].guild = wf[p].guild
                       /\ store[i].name = wf[p].tag
                       /\ store[i].deleted)
                          => store'[i].name = wf[p].message.content]_vars

\* An edit persisted the content of the reply of its invoker while the tag
\* held another content before
C27_Witness ==
    \E p \in Procs : \E i \in 1..Len(store) :
        /\ wf[p].op = "edit" /\ wf[p].out = "edited"
        /\ wf[p].message = [channel |-> InteractionChannel, author |-> wf[p].user,
                            content |-> "*y"]
        /\ store[i].guild = wf[p].guild /\ store[i].name = wf[p].tag
        /\ store[i].content = "*y"

\* The reservations other than (g, n) are the same before and after the step
OthersKept(g, n) ==
    \A h \in Guilds, m \in Names :
        (h # g \/ Lower(m) # Lower(n))
            => (Held(reserved', h, m) <=> Held(reserved, h, m))

\* C28: remove_in_progress_tag(G,N) called twice in a row, or for a name or a
\* guild that was never reserved, raises nothing, removes no other
\* reservation, and is_tag_being_made(G,N) is false after it.
C28_ReleaseIdempotent ==
    /\ [](call.op = "remove_in_progress_tag"
            => /\ call.result = "None"
               /\ is_tag_being_made(reserved, call.guild, call.name) = "False")
    /\ [][call'.op = "remove_in_progress_tag"
            => /\ OthersKept(call'.guild, call'.name)
               /\ call' = call => reserved' = reserved]_vars

\* C29: the reservation table never maps a guild to an empty set: a release
\* removes the lowercased name from the set of the guild and removes the
\* entry of the guild when the set becomes empty, after any sequence of
\* reserve and release calls.
C29_NoEmptyGuildEntry ==
    /\ [](\A g \in DOMAIN reserved : reserved[g] # {})
    /\ [][(call'.op = "remove_in_progress_tag" /\ call'.guild \in DOMAIN reserved)
            => LET g == call'.guild
                   being_made == reserved[g] \ {Lower(call'.name)}
               IN /\ being_made = {} => g \notin DOMAIN reserved'
                  /\ being_made # {} => (g \in DOMAIN reserved'
                                          /\ reserved'[g] = being_made)
                  /\ \A h \in DOMAIN reserved \ {g} :
                        h \in DOMAIN reserved' /\ reserved'[h] = reserved[h]]_vars

\* The last call released a name written in upper case from a guild that
\* keeps another reservation, while the other guild holds one too
C29_Witness ==
    /\ call = [op |-> "remove_in_progress_tag", guild |-> 1, name |-> "A",
               result |-> "None"]
    /\ DOMAIN reserved = {1, 2}
    /\ reserved[1] = {"b"}

\* The names that differ from n by letter case only, n included
CaseVariants(n) == {m \in Names : Lower(m) = Lower(n)}

\* C30: reservation names are compared without regard to letter case: after
\* N is reserved in G every case variant of N is reserved in G, and releasing
\* any variant releases the reservation.
C30_CaseInsensitive ==
    /\ call.op = "add_in_progress_tag"
          => \A m \in CaseVariants(call.name) :
                is_tag_being_made(reserved, call.guild, m) = "True"
    /\ call.op = "remove_in_progress_tag"
          => \A m \in CaseVariants(call.name) :
                is_tag_being_made(reserved, call.guild, m) = "False"

RECURSIVE PrefixEntries(_)
\* The (guild, prefix) entries tag_cache holds: the prefixes of every guild
PrefixEntries(c) ==
    IF c = << >>
    THEN 0
    ELSE Cardinality(DOMAIN Head(c).value) + PrefixEntries(Tail(c))

\* C32: both lookup caches are bounded: the number of cached (guild, prefix)
\* entries and the number of cached (guild, query) entries each never exceed
\* the capacity, after any sequence of autocomplete queries.
C32_CachesBounded ==
    /\ Len(ac.autocomplete_cache) <= maxsize
    /\ PrefixEntries(ac.tag_cache) <= maxsize

\* tag_autocomplete is called in this step for a query autocomplete_cache holds
CalledOnCachedQuery ==
    /\ ac'.event = "called"
    /\ ac' # ac
    /\ CacheKey(ac'.guild, ac'.current) \in Keys(ac.autocomplete_cache)

\* C31: writes to the store never invalidate the lookup caches: once a query
\* (guild, lowercased text) is cached, the same query made after a create,
\* rename, delete or restore in the guild is answered with the cached list,
\* until the entry is evicted.
C31_WritesKeepCachedAnswers ==
    /\ [][store' # store
            => /\ ac'.tag_cache = ac.tag_cache
               /\ ac'.autocomplete_cache = ac.autocomplete_cache]_vars
    /\ [][CalledOnCachedQuery
            => ac'.response =
                 NamesOf(Value(ac.autocomplete_cache,
                               CacheKey(ac'.guild, ac'.current)))]_vars

\* A query typed in upper case was answered from the cache with a list that
\* the relation no longer gives
C31_Witness ==
    /\ ac.event = "called" /\ ac.current = "A"
    /\ CacheKey(ac.guild, ac.current) \in Keys(ac.autocomplete_cache)
    /\ ac.response = NamesOf(Value(ac.autocomplete_cache,
                                   CacheKey(ac.guild, ac.current)))
    /\ ac.response # NamesOf(FetchPrefix(store, ac.guild, Lower(ac.current)))
    /\ \A p \in Procs : wf[p].pc = "done"

\* Invocation p of tags list runs in this step
Listed(p) == wf[p].pc = "idle" /\ wf'[p].op = "list"

\* The pages the list has for invocation w when it fetches from s
NumberOfPages(s, w) == NumberOfEmbeds(ListedTags(s, w.guild, w.target))

\* C33: tags list with a starting_page outside 1..number_of_pages is answered
\* with 'That page does not exist.' and constructs no paginator; a paginator
\* is only ever started with an index inside its page range.
C33_ListRejectsMissingPage ==
    /\ [](pg.pc # "none" => (0 <= pg.start_index /\ pg.start_index < pg.embeds))
    /\ [][\A p \in Procs :
            (Listed(p) /\ wf'[p].starting_page \notin 1..NumberOfPages(store, wf'[p]))
                => (wf'[p].out = "page_does_not_exist" /\ pg' = pg)]_vars

\* One list was rejected for page 0 and another started its paginator on the
\* second of two pages
C33_Witness ==
    \E p, q \in Procs :
        /\ wf[p].out = "page_does_not_exist" /\ wf[p].starting_page = 0
        /\ wf[q].out = "paginator" /\ wf[q].starting_page = 2
        /\ pg.pc = "started" /\ pg.start_index = 1 /\ pg.embeds = 2

\* the step records p's reservation: create 269, restore 646
Reserves(p) ==
    \/ wf[p].pc # "c_wait" /\ wf'[p].pc = "c_wait"
    \/ wf[p].pc # "rs_update" /\ wf'[p].pc = "rs_update"

\* the step evaluates is_tag_being_made for p's name: create 266 in the step
\* of the invocation, restore 625 in the step that receives the reply
ChecksReservation(p) == wf[p].pc \in {"idle", "rs_wait"}

\* create has passed its pre-check and has not finished
CreateInFlight(p) == wf[p].op = "create" /\ wf[p].pc \in {"c_wait", "c_insert"}

\* C34 as stated: the existence-check-then-reserve sequence is not atomic,
\* for create and for restore with a new name: the step that records a
\* reservation is never the step that evaluated the reservation check, so a
\* second workflow can pass the same check in between.
C34_CheckThenReserveNotAtomic ==
    [][\A p \in Procs : Reserves(p) => ~ChecksReservation(p)]_vars

\* C34 amended: only restore with a new name reserves in a later step than
\* the one that checked the reservation (the SELECT of line 633 lies between);
\* create checks and reserves in one step, and two creates for the same guild
\* and name are never both past the pre-check.
C34_OnlyRestoreReservesLater ==
    /\ [](\A p, q \in Procs :
            (p # q /\ wf[p].guild = wf[q].guild /\ wf[p].tag = wf[q].tag)
                => ~(CreateInFlight(p) /\ CreateInFlight(q)))
    /\ [][\A p \in Procs :
            Reserves(p) => (ChecksReservation(p) <=> wf'[p].op = "create")]_vars

\* C34 witness: two restores replied the same new name in the same guild,
\* both passed the reservation check, both reserved and both wrote.
C34_Witness ==
    \E p, q \in Procs :
        /\ p # q
        /\ wf[p].op = "restore" /\ wf[q].op = "restore"
        /\ wf[p].guild = wf[q].guild /\ wf[p].msg = wf[q].msg
        /\ wf[p].out = "renamed_and_restored"
        /\ wf[q].out = "renamed_and_restored"

\* the rows of s that belong to guilds other than g, in order
RowsOutside(s, g) == SelectSeq(s, LAMBDA r : r.guild # g)

\* C35: no step of an operation invoked in guild G modifies or removes a row
\* whose guild differs from G.
C35_OtherGuildsUntouched ==
    [][\A p \in Procs :
          wf'[p] # wf[p] =>
             RowsOutside(store', wf'[p].guild) = RowsOutside(store, wf'[p].guild)]_vars

\* (h, m) is another key than a reservation the table holds, and is not
\* itself reserved
FreeBesideReservation(h, m) ==
    /\ ~Held(reserved, h, m)
    /\ \E g \in DOMAIN reserved : \E n \in reserved[g] : h # g \/ Lower(m) # n

\* C36: a reservation of N1 in G leaves every other key free: while it is
\* held, is_tag_being_made returns false for every name of G that differs
\* from N1 case-insensitively and for every name of any other guild, and a
\* create for such a name that has no row proceeds to await its reply.
C36_ReservationLeavesOthersFree ==
    /\ [](\A h \in Guilds, m \in Names :
            FreeBesideReservation(h, m)
                => is_tag_being_made(reserved, h, m) = "False")
    /\ [][\A p \in Procs :
            (/\ wf[p].pc = "idle" /\ wf'[p].op = "create"
             /\ FreeBesideReservation(wf'[p].guild, wf'[p].tag)
             /\ Matching(store, wf'[p].tag, wf'[p].guild, FALSE) = {})
                => wf'[p].pc = "c_wait"]_vars

\* C37: after every handled interaction with the paginator (a button press
\* or a modal submission, by the author or by anyone else, also one that
\* arrives right after start() has sent the message at a non-zero index) the
\* page the message shows is pages[index] of the view.
C37_ShownPageIsIndex ==
    pg.request # "" => pg.shown = pg.index

\* C38: the message first sent by Paginator.start already carries button
\* states that match the starting index: previous is disabled exactly when
\* the starting index is 0, next exactly when it is the last index (the
\* flags are set before the view is rendered).
C38_FirstMessageMatchesStart ==
    [][(pg.pc = "built" /\ pg'.pc = "sending")
          => /\ pg'.shown = pg.start_index
             /\ pg'.shown_previous_disabled = (pg.start_index = 0)
             /\ pg'.shown_next_disabled = (pg.start_index = pg.embeds - 1)]_vars

=============================================================================
